---- MODULE Spec2Model ----
(***************************************************************************)
(* Operator evaluation of the interpreter (src/operator.rs): binary_op,    *)
(* unrelated_ptr_ops and unary_op over primitive values.                   *)
(*                                                                         *)
(* A 64-bit container is a little-endian sequence of 8 bytes; a Rust       *)
(* integer of type iN/uN is a record [s |-> signed, b |-> N/8 bytes].      *)
(* All arithmetic is done on bytes, so every width of the program keeps    *)
(* its exact size (8, 16, 32 and 64 bits).                                 *)
(***************************************************************************)
EXTENDS Integers, Sequences, FiniteSets, TLC

VARIABLES pc, bin_op, left, left_kind, right, right_kind, result,
          un_op, val, val_kind, first, second

vars == <<pc, bin_op, left, left_kind, right, right_kind, result,
          un_op, val, val_kind, first, second>>

(***************************************************************************)
(* Bounds of the model.                                                    *)
(***************************************************************************)
\* operand values are taken within MaxDelta of each landmark of a width
MaxDelta == 1
\* number of real allocations a pointer operand may point into
NumAllocs == 2

(***************************************************************************)
(* Byte-sequence arithmetic (the machine integers of the build).           *)
(***************************************************************************)
Zero(n) == [i \in 1..n |-> 0]

Small(d, n) == [i \in 1..n |-> IF i = 1 THEN d ELSE 0]

Trunc(x, n) == [i \in 1..n |-> x[i]]

ZeroExt(x, n) == [i \in 1..n |-> IF i <= Len(x) THEN x[i] ELSE 0]

SignExt(x, n) == [i \in 1..n |-> IF i <= Len(x) THEN x[i]
                                 ELSE IF x[Len(x)] >= 128 THEN 255 ELSE 0]

Negative(x) == x[Len(x)] >= 128

Bit(x, i) == (x[(i \div 8) + 1] \div (2 ^ (i % 8))) % 2

\* the n bytes of the bits B[0] .. B[8n - 1]
FromBits(n, B) ==
    [j \in 1..n |-> LET o == 8 * (j - 1)
                    IN  B[o] + 2 * B[o + 1] + 4 * B[o + 2] + 8 * B[o + 3]
                        + 16 * B[o + 4] + 32 * B[o + 5] + 64 * B[o + 6]
                        + 128 * B[o + 7]]

BitIndex(x) == 0..(8 * Len(x) - 1)

BitNot(x) == [i \in 1..Len(x) |-> 255 - x[i]]

BitAndB(x, y) ==
    FromBits(Len(x), [i \in BitIndex(x) |-> Bit(x, i) * Bit(y, i)])

BitOrB(x, y) ==
    FromBits(Len(x), [i \in BitIndex(x) |->
                        Bit(x, i) + Bit(y, i) - Bit(x, i) * Bit(y, i)])

BitXorB(x, y) ==
    FromBits(Len(x), [i \in BitIndex(x) |-> (Bit(x, i) + Bit(y, i)) % 2])

RECURSIVE AddC(_, _, _, _)
\* the sum of a and b with carry-in c from byte i on; the last element is
\* the carry out
AddC(a, b, i, c) ==
    IF i > Len(a) THEN <<c>>
    ELSE LET t == a[i] + b[i] + c
         IN  <<t % 256>> \o AddC(a, b, i + 1, t \div 256)

WrapAdd(a, b) == Trunc(AddC(a, b, 1, 0), Len(a))

CarryOut(a, b) == AddC(a, b, 1, 0)[Len(a) + 1] = 1

WrapSub(a, b) == Trunc(AddC(a, BitNot(b), 1, 1), Len(a))

\* a < b as unsigned numbers: the subtraction borrows
ULess(a, b) == AddC(a, BitNot(b), 1, 1)[Len(a) + 1] = 0

WrapNeg(a) == WrapSub(Zero(Len(a)), a)

RECURSIVE ColSum(_, _, _, _)
ColSum(a, b, k, i) ==
    IF i > k THEN 0 ELSE a[i] * b[k + 1 - i] + ColSum(a, b, k, i + 1)

RECURSIVE MulC(_, _, _, _)
MulC(a, b, k, c) ==
    IF k > Len(a) THEN <<>>
    ELSE LET t == ColSum(a, b, k, 1) + c
         IN  <<t % 256>> \o MulC(a, b, k + 1, t \div 256)

\* the product of a and b modulo 2^(8 * Len(a))
WrapMul(a, b) == MulC(a, b, 1, 0)

\* one step of the restoring division of a by b: acc.i is the bit of a to
\* bring down, acc.q the set of quotient bits so far, acc.r the running
\* remainder (one byte wider than a); nb is the complement of b, so that
\* r2 + nb + 1 is r2 - b and carries out iff r2 >= b
DivStep(a, nb, acc) ==
    LET r2 == Trunc(AddC(acc.r, acc.r, 1, Bit(a, acc.i)), Len(acc.r))
        d  == AddC(r2, nb, 1, 1)
        ge == d[Len(r2) + 1] = 1
    IN  [i |-> acc.i - 1,
         q |-> IF ge THEN acc.q \cup {acc.i} ELSE acc.q,
         r |-> IF ge THEN Trunc(d, Len(r2)) ELSE r2]

RECURSIVE DivLoop(_, _, _)
DivLoop(a, nb, acc) ==
    IF acc.i < 0 THEN acc ELSE DivLoop(a, nb, DivStep(a, nb, acc))

\* the highest byte of a that is not zero (1 when a is zero)
TopByte(a) ==
    LET nz == {i \in 1..Len(a) : a[i] # 0}
    IN  IF nz = {} THEN 1 ELSE CHOOSE i \in nz : \A j \in nz : j <= i

\* unsigned quotient and remainder of a by b (b nonzero), both Len(a) bytes;
\* the bits above the highest nonzero byte of a bring nothing down
UDivMod(a, b) ==
    LET n   == Len(a)
        acc == DivLoop(a, BitNot(ZeroExt(b, n + 1)),
                       [i |-> 8 * TopByte(a) - 1, q |-> {}, r |-> Zero(n + 1)])
    IN  [q |-> FromBits(n, [i \in BitIndex(a) |-> IF i \in acc.q THEN 1 ELSE 0]),
         r |-> Trunc(acc.r, n)]

Abs(a) == IF Negative(a) THEN WrapNeg(a) ELSE a

\* truncating signed division on two's-complement operands of equal length;
\* the quotient wraps when it does not fit
SDivMod(a, b) ==
    LET m == UDivMod(Abs(a), Abs(b))
    IN  [q |-> IF Negative(a) # Negative(b) THEN WrapNeg(m.q) ELSE m.q,
         r |-> IF Negative(a) THEN WrapNeg(m.r) ELSE m.r]

\* x shifted left by s bits (0 <= s < 8 * Len(x))
ShlB(x, s) ==
    FromBits(Len(x), [i \in BitIndex(x) |-> IF i >= s THEN Bit(x, i - s) ELSE 0])

\* x shifted right by s bits, filling with fill (0 or 1)
ShrB(x, s, fill) ==
    FromBits(Len(x), [i \in BitIndex(x) |->
                        IF i + s < 8 * Len(x) THEN Bit(x, i + s) ELSE fill])

(***************************************************************************)
(* Rust integers and the integer primitives of the standard library that   *)
(* the macros call.                                                        *)
(***************************************************************************)
RInt(s, b) == [s |-> s, b |-> b]

\* a bits field, of type u64
U64(bits) == RInt(FALSE, bits)

\* the cast `v as T` where T has signedness s and n bytes: truncation, or
\* extension by the signedness of the source type
As(v, s, n) ==
    RInt(s, IF n <= Len(v.b) THEN Trunc(v.b, n)
           ELSE IF v.s THEN SignExt(v.b, n) ELSE ZeroExt(v.b, n))

\* the minimum value of the signed type of n bytes
MinB(n) == [i \in 1..n |-> IF i = n THEN 128 ELSE 0]

overflowing_add(l, r) ==
    LET sum == WrapAdd(l.b, r.b)
    IN  [val |-> RInt(l.s, sum),
         overflowed |-> IF l.s
                        THEN Negative(l.b) = Negative(r.b)
                             /\ Negative(sum) # Negative(l.b)
                        ELSE CarryOut(l.b, r.b)]

overflowing_sub(l, r) ==
    LET diff == WrapSub(l.b, r.b)
    IN  [val |-> RInt(l.s, diff),
         overflowed |-> IF l.s
                        THEN Negative(l.b) # Negative(r.b)
                             /\ Negative(diff) # Negative(l.b)
                        ELSE ULess(l.b, r.b)]

overflowing_mul(l, r) ==
    LET n    == Len(l.b)
        wide == WrapMul(As(l, l.s, 2 * n).b, As(r, r.s, 2 * n).b)
        low  == Trunc(wide, n)
    IN  [val |-> RInt(l.s, low),
         overflowed |-> wide # As(RInt(l.s, low), l.s, 2 * n).b]

overflowing_div(l, r) ==
    IF l.s /\ l.b = MinB(Len(l.b)) /\ r.b = BitNot(Zero(Len(r.b)))
    THEN [val |-> l, overflowed |-> TRUE]
    ELSE [val |-> RInt(l.s, IF l.s THEN SDivMod(l.b, r.b).q
                           ELSE UDivMod(l.b, r.b).q),
          overflowed |-> FALSE]

overflowing_rem(l, r) ==
    IF l.s /\ l.b = MinB(Len(l.b)) /\ r.b = BitNot(Zero(Len(r.b)))
    THEN [val |-> RInt(l.s, Zero(Len(l.b))), overflowed |-> TRUE]
    ELSE [val |-> RInt(l.s, IF l.s THEN SDivMod(l.b, r.b).r
                           ELSE UDivMod(l.b, r.b).r),
          overflowed |-> FALSE]

\* rhs is a u32; the primitive masks it with BITS - 1 itself and reports
\* whether it was out of range
ShiftAmount(l, rhs) == rhs.b[1] % (8 * Len(l.b))

overflowing_shl(l, rhs) ==
    [val |-> RInt(l.s, ShlB(l.b, ShiftAmount(l, rhs))),
     overflowed |-> rhs.b # Small(ShiftAmount(l, rhs), 4)]

overflowing_shr(l, rhs) ==
    [val |-> RInt(l.s, ShrB(l.b, ShiftAmount(l, rhs),
                           IF l.s /\ Negative(l.b) THEN 1 ELSE 0)),
     overflowed |-> rhs.b # Small(ShiftAmount(l, rhs), 4)]

PrimOp(op, l, r) ==
    CASE op = "overflowing_add" -> overflowing_add(l, r)
      [] op = "overflowing_sub" -> overflowing_sub(l, r)
      [] op = "overflowing_mul" -> overflowing_mul(l, r)
      [] op = "overflowing_div" -> overflowing_div(l, r)
      [] op = "overflowing_rem" -> overflowing_rem(l, r)
      [] op = "overflowing_shl" -> overflowing_shl(l, r)
      [] op = "overflowing_shr" -> overflowing_shr(l, r)

\* division and remainder by zero panic in every build
PrimPanics(op, l, r) ==
    op \in {"overflowing_div", "overflowing_rem"} /\ r.b = Zero(Len(r.b))

(***************************************************************************)
(* Primitive values, pointers and outcomes.                                *)
(***************************************************************************)
\* the allocation identity of a value that is no pointer
NoAlloc == 0

AllocIds == 1..NumAllocs

PrimVal(bits, relocation) == [bits |-> bits, relocation |-> relocation]

PrimVal_new(bits) == PrimVal(bits, NoAlloc)

PrimVal_from_bool(b) == PrimVal_new(Small(IF b THEN 1 ELSE 0, 8))

to_ptr(v) == [alloc_id |-> v.relocation, offset |-> v.bits]

to_int_is_ok(p) == p.alloc_id = NoAlloc

bits_to_bool(bits) == bits[1] % 2 = 1

\* Ok((val, overflow)) of binary_op
Ok(v, o) == [tag |-> "Ok", val |-> v, overflow |-> o]

\* Ok(val) of unrelated_ptr_ops and unary_op
OkVal(v) == [tag |-> "Ok", val |-> v]

Err(e) == [tag |-> "Err", err |-> e]

\* bug!(): the internal-invariant violation
Bug == [tag |-> "Bug"]

\* a panic of the arithmetic itself
Panic == [tag |-> "Panic"]

(***************************************************************************)
(* The macros.                                                             *)
(***************************************************************************)
\* Ok((PrimVal::new(val as u64), overflowed)) of a primitive's result: the
\* cast extends by the signedness of val
OkOf(res) == Ok(PrimVal_new(As(res.val, FALSE, 8).b), res.overflowed)

\* the same with val widened as an unsigned value of its own width: a
\* signed result is not sign-extended into the container
OkOfZeroExtended(res) == Ok(PrimVal_new(ZeroExt(res.val.b, 8)), res.overflowed)

\* overflow! with the result zero-extended
overflow_zero_extended(op, l, r) ==
    IF PrimPanics(op, l, r) THEN Panic
    ELSE OkOfZeroExtended(PrimOp(op, l, r))

\* let (val, overflowed) = $l.$op($r); Ok((PrimVal::new(val as u64), overflowed))
overflow(op, l, r) ==
    IF PrimPanics(op, l, r) THEN Panic
    ELSE OkOf(PrimOp(op, l, r))

IntKinds == {"I8", "I16", "I32", "I64", "U8", "U16", "U32", "U64"}

FloatKinds == {"F32", "F64"}

Kinds == IntKinds \cup FloatKinds \cup {"Bool", "Ptr"}

is_int(k) == k \in IntKinds

\* the integer type the macros cast an operand of a kind to: its
\* signedness and its bytes
int_type(kind) ==
    CASE kind = "I8"  -> [s |-> TRUE, n |-> 1]
      [] kind = "I16" -> [s |-> TRUE, n |-> 2]
      [] kind = "I32" -> [s |-> TRUE, n |-> 4]
      [] kind = "I64" -> [s |-> TRUE, n |-> 8]
      [] kind = "U8"  -> [s |-> FALSE, n |-> 1]
      [] kind = "U16" -> [s |-> FALSE, n |-> 2]
      [] kind = "U32" -> [s |-> FALSE, n |-> 4]
      [] kind = "U64" -> [s |-> FALSE, n |-> 8]

\* int_arithmetic! with the signed arms cast to the unsigned type of the
\* same width
int_arithmetic_unsigned(kind, int_op, l, r) ==
    IF is_int(kind)
    THEN overflow(int_op, As(U64(l), FALSE, int_type(kind).n),
                  As(U64(r), FALSE, int_type(kind).n))
    ELSE Bug

\* match $kind { I8 => overflow!($int_op, l as i8, r as i8), ... }
int_arithmetic(kind, int_op, l, r) ==
    IF is_int(kind)
    THEN overflow(int_op, As(U64(l), int_type(kind).s, int_type(kind).n),
                  As(U64(r), int_type(kind).s, int_type(kind).n))
    ELSE Bug

\* match $kind { I8 => overflow!($int_op, l as i8, r), ... }; r is the u32
\* shift amount
int_shift(kind, int_op, l, r) ==
    IF is_int(kind)
    THEN overflow(int_op, As(U64(l), int_type(kind).s, int_type(kind).n), r)
    ELSE Bug

(***************************************************************************)
(* binary_op.                                                              *)
(***************************************************************************)
BinOps == {"Add", "Sub", "Mul", "Div", "Rem", "BitOr", "BitAnd", "BitXor",
           "Shl", "Shr", "Eq", "Ne", "Lt", "Le", "Gt", "Ge"}

ShiftOps == {"Shl", "Shr"}

OrderOps == {"Lt", "Le", "Gt", "Ge"}

\* the operators that have arms of their own for F32 and F64; these arms
\* (IEEE comparison and arithmetic) are outside this model, and no operand
\* pair that reaches them is drawn
FloatArmOps == {"Eq", "Ne", "Lt", "Le", "Gt", "Ge",
                "Add", "Sub", "Mul", "Div", "Rem"}

\* unrelated_ptr_ops with the integer test ahead of the Eq and Ne arms
unrelated_ptr_ops_int_test_first(op, left_ptr, right_ptr) ==
    CASE op \in OrderOps -> Err("InvalidPointerMath")
      [] op \notin OrderOps
         /\ to_int_is_ok(left_ptr) # to_int_is_ok(right_ptr)
           -> Err("ReadPointerAsBytes")
      [] op = "Eq" /\ to_int_is_ok(left_ptr) = to_int_is_ok(right_ptr)
           -> OkVal(PrimVal_from_bool(FALSE))
      [] op = "Ne" /\ to_int_is_ok(left_ptr) = to_int_is_ok(right_ptr)
           -> OkVal(PrimVal_from_bool(TRUE))
      [] OTHER -> Bug

unrelated_ptr_ops(op, left_ptr, right_ptr) ==
    CASE op = "Eq" -> OkVal(PrimVal_from_bool(FALSE))
      [] op = "Ne" -> OkVal(PrimVal_from_bool(TRUE))
      [] op \in OrderOps -> Err("InvalidPointerMath")
      [] op \notin {"Eq", "Ne"} \cup OrderOps
         /\ to_int_is_ok(left_ptr) # to_int_is_ok(right_ptr)
           -> Err("ReadPointerAsBytes")
      [] OTHER -> Bug

type_bits(kind) ==
    CASE kind \in {"I8", "U8"}   -> 8
      [] kind \in {"I16", "U16"} -> 16
      [] kind \in {"I32", "U32"} -> 32
      [] kind \in {"I64", "U64"} -> 64

\* the shift amount without the mask: right.bits as u32
shift_amount_unmasked(rv, kind) == As(U64(rv.bits), FALSE, 4)

\* let r = (right.bits as u32) & (type_bits - 1)
shift_amount(rv, kind) ==
    RInt(FALSE, BitAndB(As(U64(rv.bits), FALSE, 4).b,
                        Small(type_bits(kind) - 1, 4)))

shift_op(op, l, kind, rv) ==
    IF kind \notin IntKinds THEN Bug
    ELSE int_shift(kind, IF op = "Shl" THEN "overflowing_shl"
                         ELSE "overflowing_shr", l, shift_amount(rv, kind))

\* the guard with all integer kinds taken for one kind
kind_mismatch_integers_alike(lk, rk) == lk # rk /\ ~(is_int(lk) /\ is_int(rk))

\* left_kind != right_kind
kind_mismatch(lk, rk) == lk # rk

ArithOps == {"Add", "Sub", "Mul", "Div", "Rem"}

\* the primitive of each arithmetic arm of the match
int_op(op) ==
    CASE op = "Add" -> "overflowing_add"
      [] op = "Sub" -> "overflowing_sub"
      [] op = "Mul" -> "overflowing_mul"
      [] op = "Div" -> "overflowing_div"
      [] op = "Rem" -> "overflowing_rem"

\* the arms of the match that are not float arms, in the order of the source
match_op(op, kind, l, r) ==
    CASE op = "Eq" -> Ok(PrimVal_from_bool(l = r), FALSE)
      [] op = "Ne" -> Ok(PrimVal_from_bool(l # r), FALSE)
      [] op = "Lt" -> Ok(PrimVal_from_bool(ULess(l, r)), FALSE)
      [] op = "Le" -> Ok(PrimVal_from_bool(~ULess(r, l)), FALSE)
      [] op = "Gt" -> Ok(PrimVal_from_bool(ULess(r, l)), FALSE)
      [] op = "Ge" -> Ok(PrimVal_from_bool(~ULess(l, r)), FALSE)
      [] op = "BitOr"  -> Ok(PrimVal_new(BitOrB(l, r)), FALSE)
      [] op = "BitAnd" -> Ok(PrimVal_new(BitAndB(l, r)), FALSE)
      [] op = "BitXor" -> Ok(PrimVal_new(BitXorB(l, r)), FALSE)
      [] op \in ArithOps /\ is_int(kind) -> int_arithmetic(kind, int_op(op), l, r)
      [] OTHER -> Err("Unimplemented")

\* the operand pairs whose result this model computes: all but those that
\* reach a float arm of the match
Modelled(op, lv, lk, rv, rk) ==
    \/ to_ptr(lv).alloc_id # to_ptr(rv).alloc_id
    \/ op \in ShiftOps
    \/ lk # rk
    \/ ~(lk \in FloatKinds /\ op \in FloatArmOps)

\* binary_op with the shift test ahead of the allocation test
binary_op_shift_first(op, lv, lk, rv, rk) ==
    LET left_ptr  == to_ptr(lv)
        right_ptr == to_ptr(rv)
    IN  IF op \in ShiftOps THEN shift_op(op, lv.bits, lk, rv)
        ELSE IF left_ptr.alloc_id # right_ptr.alloc_id
        THEN LET u == unrelated_ptr_ops(op, left_ptr, right_ptr)
             IN  IF u.tag = "Ok" THEN Ok(u.val, FALSE) ELSE u
        ELSE IF kind_mismatch(lk, rk) THEN Err("Unimplemented")
        ELSE CASE ~(lk \in FloatKinds /\ op \in FloatArmOps) ->
                    match_op(op, lk, lv.bits, rv.bits)

binary_op(op, lv, lk, rv, rk) ==
    LET left_ptr  == to_ptr(lv)
        right_ptr == to_ptr(rv)
    IN  IF left_ptr.alloc_id # right_ptr.alloc_id
        THEN LET u == unrelated_ptr_ops(op, left_ptr, right_ptr)
             IN  IF u.tag = "Ok" THEN Ok(u.val, FALSE) ELSE u
        ELSE IF op \in ShiftOps THEN shift_op(op, lv.bits, lk, rv)
        ELSE IF kind_mismatch(lk, rk) THEN Err("Unimplemented")
        ELSE CASE ~(lk \in FloatKinds /\ op \in FloatArmOps) ->
                    match_op(op, lk, lv.bits, rv.bits)

(***************************************************************************)
(* unary_op.  The result is the set of outcomes the builds can produce:    *)
(* `-x` on the minimum of a signed type wraps where overflow checks are    *)
(* off and panics where they are on.                                       *)
(***************************************************************************)
UnOps == {"Not", "Neg"}

\* !x on an integer
not_int(v) == RInt(v.s, BitNot(v.b))

\* -x on a signed integer
neg_int(v) ==
    IF v.b = MinB(Len(v.b))
    THEN {OkVal(PrimVal_new(As(RInt(v.s, WrapNeg(v.b)), FALSE, 8).b)), Panic}
    ELSE {OkVal(PrimVal_new(As(RInt(v.s, WrapNeg(v.b)), FALSE, 8).b))}

\* f32_to_bits(-bits_to_f32(bits)) and the f64 one: n is 4 or 8
neg_float(bits, n) ==
    LET x == Trunc(bits, n)
    IN  ZeroExt([x EXCEPT ![n] = (x[n] + 128) % 256], 8)

\* the complement taken on the whole container, without the cast: !bits
not_bits_uncast(bits, s, n) == BitNot(bits)

\* !(bits as T) as u64, T of signedness s and n bytes
not_bits(bits, s, n) == As(not_int(As(U64(bits), s, n)), FALSE, 8).b

unary_op(op, v, kind) ==
    LET bits == v.bits
    IN  CASE op = "Not" /\ kind = "Bool" ->
               {OkVal(PrimVal_new(Small(IF ~bits_to_bool(bits) THEN 1 ELSE 0, 8)))}
          [] op = "Not" /\ kind = "U8"  -> {OkVal(PrimVal_new(not_bits(bits, FALSE, 1)))}
          [] op = "Not" /\ kind = "U16" -> {OkVal(PrimVal_new(not_bits(bits, FALSE, 2)))}
          [] op = "Not" /\ kind = "U32" -> {OkVal(PrimVal_new(not_bits(bits, FALSE, 4)))}
          [] op = "Not" /\ kind = "U64" -> {OkVal(PrimVal_new(BitNot(bits)))}
          [] op = "Not" /\ kind = "I8"  -> {OkVal(PrimVal_new(not_bits(bits, TRUE, 1)))}
          [] op = "Not" /\ kind = "I16" -> {OkVal(PrimVal_new(not_bits(bits, TRUE, 2)))}
          [] op = "Not" /\ kind = "I32" -> {OkVal(PrimVal_new(not_bits(bits, TRUE, 4)))}
          [] op = "Not" /\ kind = "I64" -> {OkVal(PrimVal_new(not_bits(bits, TRUE, 8)))}
          [] op = "Neg" /\ kind = "I8"  -> neg_int(As(U64(bits), TRUE, 1))
          [] op = "Neg" /\ kind = "I16" -> neg_int(As(U64(bits), TRUE, 2))
          [] op = "Neg" /\ kind = "I32" -> neg_int(As(U64(bits), TRUE, 4))
          [] op = "Neg" /\ kind = "I64" -> neg_int(As(U64(bits), TRUE, 8))
          [] op = "Neg" /\ kind = "F32" -> {OkVal(PrimVal_new(neg_float(bits, 4)))}
          [] op = "Neg" /\ kind = "F64" -> {OkVal(PrimVal_new(neg_float(bits, 8)))}
          [] OTHER -> {Err("Unimplemented")}

(***************************************************************************)
(* The operands drawn.                                                     *)
(***************************************************************************)
KindBytes(kind) == type_bits(kind) \div 8

KindSigned(kind) == kind \in {"I8", "I16", "I32", "I64"}

\* 2^(4n): the square root of 2^(8n)
HalfB(n) == IF n = 1 THEN <<16>>
            ELSE [i \in 1..n |-> IF i = (n \div 2) + 1 THEN 1 ELSE 0]

\* the n-byte patterns within MaxDelta of 0, of the signed minimum and of
\* 2^(4n), and the small values of the scenarios
KindVals(n) ==
    UNION {{WrapAdd(L, Small(d, n)), WrapSub(L, Small(d, n))} :
             L \in {Zero(n), MinB(n), HalfB(n)}, d \in 0..MaxDelta}
    \cup {Small(d, n) : d \in {2, 7, 10, 248, 250}}

\* the container of a value of an integer kind: sign- or zero-extended
Container(kind, x) == IF KindSigned(kind) THEN SignExt(x, 8) ELSE ZeroExt(x, 8)

Containers(kind) == {Container(kind, x) : x \in KindVals(KindBytes(kind))}

NoCall == "-"

InitUnaryIdle ==
    /\ un_op = NoCall /\ val = NoCall /\ val_kind = NoCall
    /\ first = NoCall /\ second = NoCall

\* Add, Sub and Mul on two canonical operands of one integer kind
InitArith ==
    /\ pc = "call"
    /\ bin_op \in {"Add", "Sub", "Mul"}
    /\ left_kind \in IntKinds
    /\ right_kind = left_kind
    /\ \E reloc \in {NoAlloc} \cup AllocIds :
         /\ left \in {PrimVal(b, reloc) : b \in Containers(left_kind)}
         /\ right \in {PrimVal(b, reloc) : b \in Containers(left_kind)}
    /\ result = NoCall
    /\ InitUnaryIdle

(***************************************************************************)
(* The calls.                                                              *)
(***************************************************************************)
EvalBinary ==
    /\ pc = "call"
    /\ bin_op # NoCall
    /\ result' = binary_op(bin_op, left, left_kind, right, right_kind)
    /\ pc' = "done"
    /\ UNCHANGED <<bin_op, left, left_kind, right, right_kind,
                   un_op, val, val_kind, first, second>>

NextBinary == EvalBinary

SpecArith == InitArith /\ [][NextBinary]_vars

(***************************************************************************)
(* Exact integers: two's complement on 17 bytes, wide enough for the sum,  *)
(* difference and product of any two 64-bit values.                        *)
(***************************************************************************)
WidenTo(kind, x, m) ==
    IF KindSigned(kind) THEN SignExt(x, m) ELSE ZeroExt(x, m)

\* the number a container holds as a value of kind
ValueOf(kind, bits) == WidenTo(kind, Trunc(bits, KindBytes(kind)), 17)

\* X is in the range of kind
Fits(kind, X) == X = WidenTo(kind, Trunc(X, KindBytes(kind)), Len(X))

\* A < B as exact integers
ExactLess(A, B) == Negative(WrapSub(A, B))

\* X wrapped to the width of kind, in the container
Wrapped(kind, X) == Container(kind, Trunc(X, KindBytes(kind)))

SameAlloc == to_ptr(left).alloc_id = to_ptr(right).alloc_id

ExactArith(op, A, B) ==
    CASE op = "Add" -> WrapAdd(A, B)
      [] op = "Sub" -> WrapSub(A, B)
      [] op = "Mul" -> WrapMul(A, B)

\* C1: Add, Sub and Mul on two values of one integer kind in one allocation
\* return the exact result wrapped to the kind's width and extended into
\* the container, with overflow true iff the exact result is out of range.
C1_ArithWrapsAndFlags ==
    (/\ pc = "done"
     /\ bin_op \in {"Add", "Sub", "Mul"}
     /\ is_int(left_kind) /\ left_kind = right_kind /\ SameAlloc)
    => LET X == ExactArith(bin_op, ValueOf(left_kind, left.bits),
                           ValueOf(left_kind, right.bits))
       IN  result = Ok(PrimVal_new(Wrapped(left_kind, X)), ~Fits(left_kind, X))

\* the scenario of C1: 250u8 + 10u8 is 4 with overflow
C1_Witness ==
    /\ pc = "done" /\ bin_op = "Add" /\ left_kind = "U8"
    /\ left.bits = Small(250, 8) /\ right.bits = Small(10, 8)
    /\ result = Ok(PrimVal_new(Small(4, 8)), TRUE)

\* Div and Rem on two canonical operands of one integer kind, the zero
\* divisor included
InitDiv ==
    /\ pc = "call"
    /\ bin_op \in {"Div", "Rem"}
    /\ left_kind \in IntKinds
    /\ right_kind = left_kind
    /\ \E reloc \in {NoAlloc, 1} :
         /\ left \in {PrimVal(b, reloc) : b \in Containers(left_kind)}
         /\ right \in {PrimVal(b, reloc) : b \in Containers(left_kind)}
    /\ result = NoCall
    /\ InitUnaryIdle

SpecDiv == InitDiv /\ [][NextBinary]_vars

\* the exact truncating quotient and remainder of two values of kind, on
\* one byte more than the kind has (no quotient needs more)
ExactDivMod(kind, lbits, rbits) ==
    SDivMod(WidenTo(kind, Trunc(lbits, KindBytes(kind)), KindBytes(kind) + 1),
            WidenTo(kind, Trunc(rbits, KindBytes(kind)), KindBytes(kind) + 1))

DivCase ==
    /\ pc = "done"
    /\ bin_op \in {"Div", "Rem"}
    /\ is_int(left_kind) /\ left_kind = right_kind /\ SameAlloc
    /\ right.bits # Zero(8)

\* the scenario of C7: 7i32 / 2i32 is 3 without overflow
DivScenario ==
    (/\ pc = "done" /\ bin_op = "Div" /\ left_kind = "I32"
     /\ left.bits = Small(7, 8) /\ right.bits = Small(2, 8))
    => result = Ok(PrimVal_new(Small(3, 8)), FALSE)

\* C7 as stated: the value is the wrapped truncating quotient or remainder
\* and overflow is true iff the exact result of that operation (the
\* quotient for Div, the remainder for Rem) is out of the kind's range.
C7_Original ==
    DivCase =>
      LET m == ExactDivMod(left_kind, left.bits, right.bits)
          X == IF bin_op = "Div" THEN m.q ELSE m.r
      IN  result = Ok(PrimVal_new(Wrapped(left_kind, X)), ~Fits(left_kind, X))

\* C7 amended: the value is the wrapped truncating quotient (Div) or
\* remainder (Rem), and for both operators overflow is true iff the exact
\* quotient is out of the kind's range (the signed minimum by -1).
C7_DivRemFlagFollowsQuotient ==
    DivCase =>
      LET m == ExactDivMod(left_kind, left.bits, right.bits)
          X == IF bin_op = "Div" THEN m.q ELSE m.r
      IN  /\ result = Ok(PrimVal_new(Wrapped(left_kind, X)), ~Fits(left_kind, m.q))
          /\ DivScenario

\* the remainder of the signed minimum by -1 is 0 with the flag set
C7_WitnessRemOverflow ==
    /\ DivCase /\ bin_op = "Rem" /\ left_kind = "I64"
    /\ left.bits = MinB(8) /\ right.bits = BitNot(Zero(8))
    /\ result = Ok(PrimVal_new(Zero(8)), TRUE)

\* the quotient and remainder of the model satisfy a = q * b + r with
\* |r| < |b| and r zero or of the sign of a
DivisionIdentity ==
    DivCase =>
      LET m == ExactDivMod(left_kind, left.bits, right.bits)
          A == ValueOf(left_kind, left.bits)
          B == ValueOf(left_kind, right.bits)
          Q == SignExt(m.q, 17)
          R == SignExt(m.r, 17)
      IN  /\ A = WrapAdd(WrapMul(Q, B), R)
          /\ ExactLess(Abs(R), Abs(B))
          /\ (R = Zero(17) \/ Negative(R) = Negative(A))

\* the comparisons on two canonical operands of one integer kind
InitCmp ==
    /\ pc = "call"
    /\ bin_op \in OrderOps \cup {"Eq", "Ne"}
    /\ left_kind \in IntKinds
    /\ right_kind = left_kind
    /\ \E reloc \in {NoAlloc} \cup AllocIds :
         /\ left \in {PrimVal(b, reloc) : b \in Containers(left_kind)}
         /\ right \in {PrimVal(b, reloc) : b \in Containers(left_kind)}
    /\ result = NoCall
    /\ InitUnaryIdle

SpecCmp == InitCmp /\ [][NextBinary]_vars

NumericCompare(op, A, B) ==
    CASE op = "Lt" -> ExactLess(A, B)
      [] op = "Le" -> ~ExactLess(B, A)
      [] op = "Gt" -> ExactLess(B, A)
      [] op = "Ge" -> ~ExactLess(A, B)

\* C10: Lt, Le, Gt and Ge on two canonical values of one integer kind in
\* one allocation return the numeric comparison of the values as the kind
\* reads them, with overflow false.
C10_Original ==
    (/\ pc = "done"
     /\ bin_op \in OrderOps
     /\ is_int(left_kind) /\ left_kind = right_kind /\ SameAlloc)
    => result = Ok(PrimVal_from_bool(
                     NumericCompare(bin_op, ValueOf(left_kind, left.bits),
                                    ValueOf(left_kind, right.bits))), FALSE)

\* on the unsigned kinds the comparison is the numeric one
UnsignedCompareNumeric ==
    (/\ pc = "done"
     /\ bin_op \in OrderOps
     /\ is_int(left_kind) /\ ~KindSigned(left_kind)
     /\ left_kind = right_kind /\ SameAlloc)
    => result = Ok(PrimVal_from_bool(
                     NumericCompare(bin_op, ValueOf(left_kind, left.bits),
                                    ValueOf(left_kind, right.bits))), FALSE)

(***************************************************************************)
(* Shifts.                                                                 *)
(***************************************************************************)
\* some containers of a kind: the canonical ones of an integer kind, two
\* patterns for any other kind
SomeBits == {Small(1, 8), BitNot(Zero(8))}

OperandBits(kind) == IF is_int(kind) THEN Containers(kind) ELSE SomeBits

\* shift amounts within MaxDelta of each width, the amount of the
\* scenario, one above the u32 range and the largest one
ShiftAmounts ==
    {Small(w + d, 8) : w \in {0, 8, 16, 32, 64}, d \in 0..MaxDelta}
    \cup {Small(w - d, 8) : w \in {8, 16, 32, 64}, d \in 0..MaxDelta}
    \cup {Small(100, 8), <<3, 0, 0, 0, 1, 0, 0, 0>>, BitNot(Zero(8))}

\* Shl and Shr: any left kind, any right kind, one allocation
InitShift ==
    /\ pc = "call"
    /\ bin_op \in ShiftOps
    /\ left_kind \in Kinds
    /\ right_kind \in Kinds
    /\ \E reloc \in {NoAlloc, 1} :
         /\ left \in {PrimVal(b, reloc) : b \in OperandBits(left_kind)}
         /\ right \in {PrimVal(b, reloc) : b \in ShiftAmounts}
    /\ result = NoCall
    /\ InitUnaryIdle

SpecShift == InitShift /\ [][NextBinary]_vars

ShiftCase ==
    /\ pc = "done"
    /\ bin_op \in ShiftOps
    /\ is_int(left_kind) /\ SameAlloc

\* r mod W for a 64-bit r and a width W that divides 256
ModWidth(r, kind) == Small(r[1] % type_bits(kind), 8)

\* C3: a shift by r returns a value, whatever the right kind, and returns
\* the same value and overflow flag as the shift by r mod W.
C3_ShiftMasking ==
    ShiftCase =>
      /\ result.tag = "Ok"
      /\ result = binary_op(bin_op, left, left_kind,
                            PrimVal(ModWidth(right.bits, left_kind),
                                    right.relocation), right_kind)

\* the scenario: -8i8 >> 100 is -8 >> 4, with a right kind that is not I8
C3_Witness ==
    /\ ShiftCase /\ bin_op = "Shr" /\ left_kind = "I8" /\ right_kind = "U32"
    /\ left.bits = Container("I8", <<248>>) /\ right.bits = Small(100, 8)
    /\ result = Ok(PrimVal_new(BitNot(Zero(8))), FALSE)

\* C8: the overflow flag of a shift is true iff the right operand, before
\* masking, is at least the width of the left kind.
C8_Original ==
    ShiftCase =>
      /\ result.tag = "Ok"
      /\ result.overflow = ~ULess(right.bits, Small(type_bits(left_kind), 8))

\* what the code does: the flag of a shift is always false
ShiftFlagAlwaysFalse == ShiftCase => result.tag = "Ok" /\ ~result.overflow

(***************************************************************************)
(* Operands in different allocations.                                      *)
(***************************************************************************)
InitPtr ==
    /\ pc = "call"
    /\ bin_op \in BinOps
    /\ left_kind \in Kinds
    /\ right_kind \in Kinds
    /\ \E la \in {NoAlloc} \cup AllocIds, ra \in {NoAlloc} \cup AllocIds :
         /\ la # ra
         /\ left \in {PrimVal(b, la) : b \in SomeBits}
         /\ right \in {PrimVal(b, ra) : b \in SomeBits}
    /\ result = NoCall
    /\ InitUnaryIdle

SpecPtr == InitPtr /\ [][NextBinary]_vars

\* C2: on operands of different allocations, whatever the kinds, Eq is
\* false and Ne is true with overflow false, and Lt, Le, Gt, Ge fail with
\* InvalidPointerMath.
C2_UnrelatedCompare ==
    (pc = "done" /\ ~SameAlloc) =>
      /\ bin_op = "Eq" => result = Ok(PrimVal_from_bool(FALSE), FALSE)
      /\ bin_op = "Ne" => result = Ok(PrimVal_from_bool(TRUE), FALSE)
      /\ bin_op \in OrderOps => result = Err("InvalidPointerMath")

\* Ne of a pointer and a plain integer of another, non-integer kind
C2_Witness ==
    /\ pc = "done" /\ bin_op = "Ne" /\ left_kind = "F32" /\ right_kind = "Ptr"
    /\ left.relocation = NoAlloc /\ right.relocation # NoAlloc
    /\ left.bits = right.bits
    /\ result = Ok(PrimVal_from_bool(TRUE), FALSE)

\* C9: on operands of different allocations every operator that is not a
\* comparison, the shifts included, returns no value: ReadPointerAsBytes
\* when exactly one operand is a plain integer, the internal-invariant
\* violation otherwise.
C9_UnrelatedArithmetic ==
    (pc = "done" /\ ~SameAlloc /\ bin_op \notin OrderOps \cup {"Eq", "Ne"}) =>
      IF (left.relocation = NoAlloc) # (right.relocation = NoAlloc)
      THEN result = Err("ReadPointerAsBytes")
      ELSE result = Bug

\* a shift of two pointers into different allocations ends in bug!()
C9_Witness ==
    /\ pc = "done" /\ bin_op = "Shl" /\ left_kind = "Bool"
    /\ left.relocation # NoAlloc /\ right.relocation # NoAlloc
    /\ left.relocation # right.relocation
    /\ result = Bug

(***************************************************************************)
(* The kind guard.                                                         *)
(***************************************************************************)
InitKind ==
    /\ pc = "call"
    /\ bin_op \in BinOps \ ShiftOps
    /\ left_kind \in Kinds
    /\ right_kind \in Kinds
    /\ \E reloc \in {NoAlloc, 1} :
         /\ left \in {PrimVal(b, reloc) : b \in SomeBits \cup {Small(250, 8)}}
         /\ right \in {PrimVal(b, reloc) : b \in SomeBits \cup {Small(250, 8)}}
    /\ Modelled(bin_op, left, left_kind, right, right_kind)
    /\ result = NoCall
    /\ InitUnaryIdle

SpecKind == InitKind /\ [][NextBinary]_vars

\* C4: a non-shift operator on operands of one allocation and of different
\* kinds fails with Unimplemented.
C4_KindMismatchUnimplemented ==
    (/\ pc = "done"
     /\ bin_op \notin ShiftOps
     /\ SameAlloc
     /\ left_kind # right_kind)
    => result = Err("Unimplemented")

\* Eq of equal bits of two integer kinds fails where a comparison of the
\* bits would have returned true
C4_Witness ==
    /\ pc = "done" /\ bin_op = "Eq" /\ left_kind = "I8" /\ right_kind = "U8"
    /\ SameAlloc /\ left.bits = right.bits
    /\ result = Err("Unimplemented")

(***************************************************************************)
(* unary_op, applied once and then again to its own result.                *)
(***************************************************************************)
UnaryBits(kind) ==
    CASE is_int(kind) -> Containers(kind)
      [] kind = "Bool" -> {Zero(8), Small(1, 8)}
      [] kind = "F32" -> {Zero(8), <<0, 0, 128, 63, 0, 0, 0, 0>>,
                          <<0, 0, 192, 255, 0, 0, 0, 0>>}
      [] OTHER -> SomeBits \cup {Zero(8)}

InitUnary ==
    /\ pc = "call"
    /\ un_op \in UnOps
    /\ val_kind \in Kinds
    /\ val \in {PrimVal_new(b) : b \in UnaryBits(val_kind)}
    /\ first = NoCall /\ second = NoCall
    /\ bin_op = NoCall /\ left = NoCall /\ left_kind = NoCall
    /\ right = NoCall /\ right_kind = NoCall /\ result = NoCall

EvalUnary ==
    /\ pc = "call"
    /\ un_op # NoCall
    /\ first' \in unary_op(un_op, val, val_kind)
    /\ pc' = "once"
    /\ UNCHANGED <<bin_op, left, left_kind, right, right_kind, result,
                   un_op, val, val_kind, second>>

EvalUnaryAgain ==
    /\ pc = "once"
    /\ first.tag = "Ok"
    /\ second' \in unary_op(un_op, first.val, val_kind)
    /\ pc' = "twice"
    /\ UNCHANGED <<bin_op, left, left_kind, right, right_kind, result,
                   un_op, val, val_kind, first>>

NextUnary == EvalUnary \/ EvalUnaryAgain

SpecUnary == InitUnary /\ [][NextUnary]_vars

\* the container holds a value of kind in canonical form
Canonical(kind, bits) ==
    IF kind = "Bool" THEN bits \in {Zero(8), Small(1, 8)}
    ELSE bits = Container(kind, Trunc(bits, KindBytes(kind)))

\* C5: Neg on a signed integer kind returns a value; applied twice it gives
\* the operand back, and on the minimum of the kind it returns the minimum
\* itself, both times.
C5_Original ==
    (un_op = "Neg" /\ KindSigned(val_kind)) =>
      /\ pc \in {"once", "twice"} =>
           /\ first.tag = "Ok"
           /\ val.bits = Container(val_kind, MinB(KindBytes(val_kind)))
                => first = OkVal(val)
      /\ pc = "twice" => second = OkVal(val)

\* what holds of Neg: whenever both applications return, the second
\* returns the operand, and a returned negation of the minimum is the
\* minimum
NegTwiceWhenReturned ==
    (un_op = "Neg" /\ KindSigned(val_kind)) =>
      /\ (pc \in {"once", "twice"} /\ first.tag = "Ok"
          /\ val.bits = Container(val_kind, MinB(KindBytes(val_kind))))
           => first = OkVal(val)
      /\ (pc = "twice" /\ second.tag = "Ok") => second = OkVal(val)

\* C6: Not on Bool and on every integer kind returns a value in canonical
\* form, and applied twice it gives the operand back.
C6_NotRoundTrip ==
    (un_op = "Not" /\ (is_int(val_kind) \/ val_kind = "Bool")) =>
      /\ pc \in {"once", "twice"} =>
           /\ first.tag = "Ok"
           /\ first.val.relocation = NoAlloc
           /\ Canonical(val_kind, first.val.bits)
      /\ pc = "twice" => second = OkVal(val)

\* Not of 250u8 is 5, zero-extended, and Not of that is 250 again
C6_Witness ==
    /\ pc = "twice" /\ un_op = "Not" /\ val_kind = "U8"
    /\ val.bits = Small(250, 8)
    /\ first = OkVal(PrimVal_new(Small(5, 8)))
    /\ second = OkVal(val)

====
